---- MODULE Spec2Model ----
(***************************************************************************)
(* Line based diffing (diff.go) and the unified hunk formatter of          *)
(* tdrn-org/go-diff, as a state machine.                                   *)
(*                                                                         *)
(* Go slices are 0-based.  A slice of lines or of LineDiff entries is a    *)
(* TLA+ sequence read with at(s, i) == s[i + 1]; the diagonal array v is a *)
(* function on 0 .. 2*max, read with its Go index.                         *)
(***************************************************************************)
EXTENDS Integers, Sequences, FiniteSets, TLC

\* ------------------------------------------------------------------ bounds

\* Longest left / right line sequence handed to DiffLines.
MaxLen == 3
\* Number of distinct line texts the inputs are drawn from.
NumLines == 2
\* Longest reader content, in bytes, handed to Diff and DiffFiles.
MaxText == 3
\* Number of distinct bytes, beside the line terminator, in a reader content.
NumBytes == 2

\* Longest edit script handed to a single Print call.
MaxScript == 9
\* Largest context width a unified formatter is built with.
MaxContext == 2
\* Longest edit script handed to each of two parallel Print calls.
MaxParScript == 2

\* --------------------------------------------------------------- constants

EqlOp == 0
AddOp == 1
DelOp == -1
\* The line terminator byte ReadString splits at.
NL == 10
DefaultUnifiedContext == 3

Ops == {EqlOp, AddOp, DelOp}

\* A line is a sequence of bytes; the input lines end with their terminator.
Lines == {<<96 + i, NL>> : i \in 1 .. NumLines}

SeqsUpTo(S, n) == UNION {[1 .. m -> S] : m \in 0 .. n}

VARIABLES
    Left,       \* differ.Left
    Right,      \* differ.Right
    pc,         \* position of the diff call
    v,          \* runFull: furthest x per diagonal, index max+k
    trace,      \* runFull: one copy of v per distance level
    d,          \* loop counter of runFull / runFullBacktrack
    k,          \* diagonal of the runFull inner loop / of the backtrack step
    x,          \* x of runFull's inner loop, then of runFullBacktrack
    y,          \* y of runFull's inner loop, then of runFullBacktrack
    Diffs,      \* Result.Diffs
    leftText,   \* testDiff: content of the left file / reader
    rightText,  \* testDiff: content of the right file / reader
    call,       \* testDiff: the entry point that is running
    returned,   \* testDiff: the entry points that have returned
    results,    \* testDiff: fileResult, readersResult, linesResult (.Diffs)
    f,          \* the Printer's unifiedFormatter
    result,     \* per Print call: the Result's Diffs
    index,      \* per Print call: index of Format's loop over the Diffs
    fpc,        \* per Print call: position in Format
    out         \* per Print call: what the call has written

diffVars == <<Left, Right, pc, v, trace, d, k, x, y, Diffs>>

testVars == <<leftText, rightText, call, returned, results>>

fmtVars == <<f, result, index, fpc, out>>

\* What a diff call does not touch.
outside == <<testVars, fmtVars>>

vars == <<diffVars, testVars, fmtVars>>

\* ------------------------------------------------------------ Result

at(s, i) == s[i + 1]

inRange(s, i) == i >= 0 /\ i < Len(s)

LineDiff(op, line) == [Op |-> op, Line |-> line]

keepLine(diffs, line) == Append(diffs, LineDiff(EqlOp, line))

addLine(diffs, line) == Append(diffs, LineDiff(AddOp, line))

deleteLine(diffs, line) == Append(diffs, LineDiff(DelOp, line))

RECURSIVE addLines(_, _)
addLines(diffs, lines) ==
    IF lines = <<>> THEN diffs
    ELSE addLines(addLine(diffs, Head(lines)), Tail(lines))

RECURSIVE deleteLines(_, _)
deleteLines(diffs, lines) ==
    IF lines = <<>> THEN diffs
    ELSE deleteLines(deleteLine(diffs, Head(lines)), Tail(lines))

\* Mutant of reverse: the script is left in backtrack order.
reverseSkipped(diffs) == diffs

reverse(diffs) == [i \in 1 .. Len(diffs) |-> diffs[Len(diffs) + 1 - i]]

\* ------------------------------------------------------------ differ

Entries == {"DiffFiles", "Diff", "DiffLines"}

\* No test harness around the call.
testIdle ==
    /\ leftText = <<>>
    /\ rightText = <<>>
    /\ call = "none"
    /\ returned = {}
    /\ results = [e \in Entries |-> <<>>]

\* The calls of Print that may be running.
Callers == {1, 2}

\* &unifiedFormatter{Context: context}: the other fields are zero.
unifiedFormatter(context) ==
    [Context |-> context, leftLine |-> 0, rightLine |-> 0, hunk |-> FALSE,
     hunkIndex |-> 0, eqlRun |-> 0, hunkStartLeft |-> 0, hunkStartRight |-> 0]

\* No Print call.
fmtIdle ==
    /\ f = unifiedFormatter(0)
    /\ result = [c \in Callers |-> <<>>]
    /\ index = [c \in Callers |-> 0]
    /\ fpc = [c \in Callers |-> "idle"]
    /\ out = [c \in Callers |-> <<>>]

\* No diff call.
diffIdle ==
    /\ Left = <<>>
    /\ Right = <<>>
    /\ pc = "idle"
    /\ v = <<>>
    /\ trace = <<>>
    /\ d = 0
    /\ k = 0
    /\ x = 0
    /\ y = 0
    /\ Diffs = <<>>

\* DiffLines: the differ holds the caller's slices; nothing has run yet.
Init ==
    /\ testIdle
    /\ fmtIdle
    /\ Left \in SeqsUpTo(Lines, MaxLen)
    /\ Right \in SeqsUpTo(Lines, MaxLen)
    /\ pc = "run"
    /\ v = <<>>
    /\ trace = <<>>
    /\ d = 0
    /\ k = 0
    /\ x = 0
    /\ y = 0
    /\ Diffs = <<>>

\* Mutant of runFast: the two one-sided fast paths exchanged.
runFastSwapped(left, right) ==
    LET l == Len(left)
        r == Len(right)
        max == l + r
    IN  IF max = 0 THEN [fast |-> TRUE, diffs |-> <<>>]
        ELSE IF l = 0 THEN [fast |-> TRUE, diffs |-> deleteLines(<<>>, right)]
        ELSE IF r = 0 THEN [fast |-> TRUE, diffs |-> addLines(<<>>, left)]
        ELSE [fast |-> FALSE, diffs |-> <<>>]

\* runFast: whether a fast path applied, and the result's script after it
\* (in the general case the Go function returns false and leaves the result
\* empty).
runFast(left, right) ==
    LET l == Len(left)
        r == Len(right)
        max == l + r
    IN  IF max = 0 THEN [fast |-> TRUE, diffs |-> <<>>]
        ELSE IF l = 0 THEN [fast |-> TRUE, diffs |-> addLines(<<>>, right)]
        ELSE IF r = 0 THEN [fast |-> TRUE, diffs |-> deleteLines(<<>>, left)]
        ELSE [fast |-> FALSE, diffs |-> <<>>]

\* run: builds the result, tries the fast paths, else enters runFull with a
\* zeroed v of 2*max+1 entries and an empty trace.
run ==
    /\ pc = "run"
    /\ LET max == Len(Left) + Len(Right)
           fast == runFast(Left, Right)
       IN  IF fast.fast
           THEN /\ Diffs' = fast.diffs
                /\ pc' = "done"
                /\ UNCHANGED <<v, trace, d>>
           ELSE /\ Diffs' = <<>>
                /\ v' = [i \in 0 .. 2 * max |-> 0]
                /\ trace' = <<>>
                /\ d' = 0
                /\ pc' = "level"
    /\ UNCHANGED <<Left, Right, k, x, y, outside>>

\* Mutant of lastLevel: the outer loop stops one level early (d < max).
lastLevelShort(max) == max - 1

\* The last distance the outer loop of runFull tries.
lastLevel(max) == max

\* runFull, head of one iteration of the outer loop: the loop test, the copy
\* of v appended to trace; past the last level the function panics.
runFullLevel ==
    /\ pc = "level"
    /\ LET max == Len(Left) + Len(Right)
       IN  IF d <= lastLevel(max)
           THEN /\ trace' = Append(trace, v)
                /\ k' = -d
                /\ pc' = "diag"
           ELSE /\ pc' = "panic"
                /\ UNCHANGED <<trace, k>>
    /\ UNCHANGED <<Left, Right, v, d, x, y, Diffs, outside>>

\* Mutant of down: the comparison of the two neighbours is inverted.
downInverted(vv, max, dd, kk) ==
    kk = -dd \/ (kk # dd /\ vv[max + kk - 1] > vv[max + kk + 1])

\* Mutant of down: a tie of the two neighbours also moves down (<=).
downOnTie(vv, max, dd, kk) ==
    kk = -dd \/ (kk # dd /\ vv[max + kk - 1] <= vv[max + kk + 1])

\* The predecessor test shared by the search and the backtrack: TRUE when
\* diagonal k at distance d is entered by a downward move from diagonal k+1.
\* Evaluated left to right, as Go's || and && are.
down(vv, max, dd, kk) ==
    kk = -dd \/ (kk # dd /\ vv[max + kk - 1] < vv[max + kk + 1])

\* The indices of vv that down reads.
downReads(max, dd, kk) ==
    IF kk = -dd \/ kk = dd THEN {} ELSE {max + kk - 1, max + kk + 1}

\* x at the start of the snake on diagonal kk.
startX(vv, max, dd, kk) ==
    IF down(vv, max, dd, kk) THEN vv[max + kk + 1] ELSE vv[max + kk - 1] + 1

\* The index of vv that startX reads beyond those of down.
startReads(vv, max, dd, kk) ==
    IF down(vv, max, dd, kk) THEN {max + kk + 1} ELSE {max + kk - 1}

\* Mutant of snake: matching lines are never followed.
snakeNone(left, right, xx, yy) == 0

\* The snake: the number of matching lines from (xx, yy) on.  The loop test
\* reads Left[x] and Right[y] only after x < l and y < r.
RECURSIVE snake(_, _, _, _)
snake(left, right, xx, yy) ==
    IF xx < Len(left) /\ yy < Len(right) /\ at(left, xx) = at(right, yy)
    THEN 1 + snake(left, right, xx + 1, yy + 1)
    ELSE 0

\* Mutant of reached: either side exhausted counts as the end.
reachedEither(xx, yy, l, r) == xx >= l \/ yy >= r

\* The termination test of the search.
reached(xx, yy, l, r) == xx >= l /\ yy >= r

\* runFull, one iteration of the inner loop (one diagonal), with the loop
\* increment: the next diagonal, or the next level once k passes d.
\* An index outside a slice is Go's run-time panic.
runFullDiag ==
    /\ pc = "diag"
    /\ LET l == Len(Left)
           r == Len(Right)
           max == l + r
           okDown == downReads(max, d, k) \subseteq DOMAIN v
           okStart == startReads(v, max, d, k) \subseteq DOMAIN v
           x0 == startX(v, max, d, k)
           y0 == x0 - k
           okSnake == (x0 < l /\ y0 < r) => (x0 >= 0 /\ y0 >= 0)
           n == snake(Left, Right, x0, y0)
           okStore == (max + k) \in DOMAIN v
       IN  IF ~(okDown /\ okStart /\ okSnake /\ okStore)
           THEN /\ pc' = "index"
                /\ UNCHANGED <<v, d, k, x, y>>
           ELSE /\ v' = [v EXCEPT ![max + k] = x0 + n]
                /\ x' = x0 + n
                /\ y' = y0 + n
                /\ IF reached(x0 + n, y0 + n, l, r)
                   THEN /\ pc' = "found"
                        /\ UNCHANGED <<d, k>>
                   ELSE IF k + 2 <= d
                   THEN /\ k' = k + 2
                        /\ pc' = "diag"
                        /\ UNCHANGED d
                   ELSE /\ d' = d + 1
                        /\ pc' = "level"
                        /\ UNCHANGED k
    /\ UNCHANGED <<Left, Right, trace, Diffs, outside>>

\* runFullBacktrack, entry: the walk starts from (l, r) at the last level
\* recorded.
runFullBacktrackEnter ==
    /\ pc = "found"
    /\ x' = Len(Left)
    /\ y' = Len(Right)
    /\ d' = Len(trace) - 1
    /\ pc' = "back"
    /\ UNCHANGED <<Left, Right, v, trace, k, Diffs, outside>>

\* The loop that walks a snake backwards, keeping Left[x] after each
\* decrement.  ok turns FALSE when Left is read outside its bounds.
RECURSIVE keepRun(_, _, _, _, _, _)
keepRun(diffs, left, xx, yy, prevX, prevY) ==
    IF xx > prevX /\ yy > prevY
    THEN IF inRange(left, xx - 1)
         THEN keepRun(keepLine(diffs, at(left, xx - 1)), left,
                      xx - 1, yy - 1, prevX, prevY)
         ELSE [diffs |-> diffs, x |-> xx - 1, y |-> yy - 1, ok |-> FALSE]
    ELSE [diffs |-> diffs, x |-> xx, y |-> yy, ok |-> TRUE]

\* The edit of one backtrack level (d > 0): a deletion when the predecessor
\* lies to the left, else an insertion.
editStep(run0, left, right, prevX) ==
    IF prevX < run0.x
    THEN IF inRange(left, run0.x - 1)
         THEN [diffs |-> deleteLine(run0.diffs, at(left, run0.x - 1)),
               x |-> run0.x - 1, y |-> run0.y, ok |-> TRUE]
         ELSE [run0 EXCEPT !.ok = FALSE]
    ELSE IF inRange(right, run0.y - 1)
         THEN [diffs |-> addLine(run0.diffs, at(right, run0.y - 1)),
               x |-> run0.x, y |-> run0.y - 1, ok |-> TRUE]
         ELSE [run0 EXCEPT !.ok = FALSE]

\* runFullBacktrack, one iteration of its loop; the iteration for d = 0 is
\* followed by the reversal of the script.
runFullBacktrack ==
    /\ pc = "back"
    /\ LET max == Len(Left) + Len(Right)
           vv == at(trace, d)
           kk == x - y
           okDown == downReads(max, d, kk) \subseteq DOMAIN vv
           prevK == IF down(vv, max, d, kk) THEN kk + 1 ELSE kk - 1
           okPrev == (max + prevK) \in DOMAIN vv
           prevX == vv[max + prevK]
           prevY == prevX - prevK
           run0 == keepRun(Diffs, Left, x, y, prevX, prevY)
           run1 == IF d > 0 THEN editStep(run0, Left, Right, prevX) ELSE run0
       IN  IF ~(okDown /\ okPrev /\ run0.ok /\ run1.ok)
           THEN /\ pc' = "index"
                /\ UNCHANGED <<d, k, x, y, Diffs>>
           ELSE /\ k' = kk
                /\ x' = run1.x
                /\ y' = run1.y
                /\ IF d > 0
                   THEN /\ d' = d - 1
                        /\ Diffs' = run1.diffs
                        /\ pc' = "back"
                   ELSE /\ Diffs' = reverse(run1.diffs)
                        /\ pc' = "done"
                        /\ UNCHANGED d
    /\ UNCHANGED <<Left, Right, v, trace, outside>>

Next ==
    \/ run
    \/ runFullLevel
    \/ runFullDiag
    \/ runFullBacktrackEnter
    \/ runFullBacktrack

Spec == Init /\ [][Next]_vars

\* A call always takes its next step.
SpecFair == Spec /\ WF_vars(Next)

\* ------------------------------------------------ readers and the test

\* A reader content is a sequence of bytes.
Bytes == {NL} \cup {96 + i : i \in 1 .. NumBytes}

\* bufio.Reader.ReadString(NL) on the unread bytes buf: the bytes up to and
\* including the first terminator; without one, all of buf with io.EOF.
\* A broken source gives another error.
ReadString(buf, broken) ==
    LET nls == {i \in 1 .. Len(buf) : buf[i] = NL}
        i == CHOOSE i \in nls : \A j \in nls : i <= j
    IN  IF broken THEN [line |-> <<>>, rest |-> buf, err |-> "io"]
        ELSE IF nls = {} THEN [line |-> buf, rest |-> <<>>, err |-> "EOF"]
        ELSE [line |-> SubSeq(buf, 1, i),
              rest |-> SubSeq(buf, i + 1, Len(buf)), err |-> "nil"]

\* readLines: lines are appended until ReadString reports an error; io.EOF
\* ends the loop, any other error is returned.
RECURSIVE readLines(_, _, _)
readLines(lines, buf, broken) ==
    LET rd == ReadString(buf, broken)
    IN  IF rd.err = "EOF" THEN [lines |-> lines, err |-> "nil"]
        ELSE IF rd.err # "nil" THEN [lines |-> <<>>, err |-> rd.err]
        ELSE readLines(Append(lines, rd.line), rd.rest, broken)

\* strings.Lines, as testDiffLines collects it: every line with its
\* terminator, and a final line without terminator when it is not empty.
RECURSIVE stringsLines(_)
stringsLines(text) ==
    LET rd == ReadString(text, FALSE)
    IN  IF text = <<>> THEN <<>>
        ELSE <<rd.line>> \o stringsLines(rd.rest)

\* testDiff: both contents are on disk, no entry point has been called.
InitTest ==
    /\ leftText \in SeqsUpTo(Bytes, MaxText)
    /\ rightText \in SeqsUpTo(Bytes, MaxText)
    /\ call = "none"
    /\ returned = {}
    /\ results = [e \in Entries |-> <<>>]
    /\ fmtIdle
    /\ diffIdle

\* differFromLines and the fresh locals of the call that follows.
differFromLines(left, right) ==
    /\ Left' = left
    /\ Right' = right
    /\ pc' = "run"
    /\ v' = <<>>
    /\ trace' = <<>>
    /\ d' = 0
    /\ k' = 0
    /\ x' = 0
    /\ y' = 0
    /\ Diffs' = <<>>

\* differFromReaders: both sides are read; an error of either read is
\* returned instead of a differ.
differFromReaders(brokenLeft, brokenRight) ==
    LET leftLines == readLines(<<>>, leftText, brokenLeft)
        rightLines == readLines(<<>>, rightText, brokenRight)
    IN  IF leftLines.err # "nil" \/ rightLines.err # "nil"
        THEN /\ pc' = "error"
             /\ UNCHANGED <<Left, Right, v, trace, d, k, x, y, Diffs>>
        ELSE differFromLines(leftLines.lines, rightLines.lines)

\* testDiffFiles: DiffFiles on the two files (both exist and open).
DiffFiles ==
    /\ pc = "idle"
    /\ returned = {}
    /\ \E brokenLeft, brokenRight \in BOOLEAN :
          differFromReaders(brokenLeft, brokenRight)
    /\ call' = "DiffFiles"
    /\ UNCHANGED <<leftText, rightText, returned, results, fmtVars>>

\* testDiffReaders: Diff on readers of the two files.
Diff ==
    /\ pc = "idle"
    /\ returned = {"DiffFiles"}
    /\ \E brokenLeft, brokenRight \in BOOLEAN :
          differFromReaders(brokenLeft, brokenRight)
    /\ call' = "Diff"
    /\ UNCHANGED <<leftText, rightText, returned, results, fmtVars>>

\* testDiffLines: DiffLines on the lines strings.Lines yields.
DiffLines ==
    /\ pc = "idle"
    /\ returned = {"DiffFiles", "Diff"}
    /\ differFromLines(stringsLines(leftText), stringsLines(rightText))
    /\ call' = "DiffLines"
    /\ UNCHANGED <<leftText, rightText, returned, results, fmtVars>>

\* testDiff: the call returns its Result to the test.
testDiffReturn ==
    /\ pc = "done"
    /\ call \in Entries
    /\ results' = [results EXCEPT ![call] = Diffs]
    /\ returned' = returned \cup {call}
    /\ pc' = IF call = "DiffLines" THEN "tested" ELSE "idle"
    /\ UNCHANGED <<Left, Right, v, trace, d, k, x, y, Diffs,
                   leftText, rightText, call, fmtVars>>

NextTest ==
    \/ DiffFiles
    \/ Diff
    \/ DiffLines
    \/ testDiffReturn
    \/ run
    \/ runFullLevel
    \/ runFullDiag
    \/ runFullBacktrackEnter
    \/ runFullBacktrack

SpecTest == InitTest /\ [][NextTest]_vars

\* ------------------------------------------------- unified formatter

maxOf(a, b) == IF a >= b THEN a ELSE b

\* WithUnifiedFormatter: the formatter the option installs in the Printer.
WithUnifiedFormatter(context) ==
    LET checkedContext == IF context < 0 THEN DefaultUnifiedContext ELSE context
    IN  unifiedFormatter(checkedContext)

\* formatHeader, plain output: the two name lines (the modification times
\* come from the clock and the file system and are left out).
formatHeader == <<[kind |-> "header", mark |-> "---"],
                  [kind |-> "header", mark |-> "+++"]>>

\* formatRange, plain output: the numbers printed in the @@ line.
formatRange(startLeft, extentLeft, startRight, extentRight) ==
    [kind |-> "range",
     startLeft |-> startLeft + 1, extentLeft |-> extentLeft,
     startRight |-> startRight + 1, extentRight |-> extentRight]

\* formatDiff, plain output: the op-line of one entry.
formatDiff(diff) == [kind |-> "diff", Op |-> diff.Op, Line |-> diff.Line]

evalDiffInsideHunk(ff, diff) ==
    IF diff.Op = EqlOp
    THEN [ff EXCEPT !.eqlRun = ff.eqlRun + 1,
                    !.hunk = (ff.eqlRun + 1 <= 2 * ff.Context),
                    !.leftLine = ff.leftLine + 1,
                    !.rightLine = ff.rightLine + 1]
    ELSE IF diff.Op = AddOp
    THEN [ff EXCEPT !.eqlRun = 0, !.rightLine = ff.rightLine + 1]
    ELSE IF diff.Op = DelOp
    THEN [ff EXCEPT !.eqlRun = 0, !.leftLine = ff.leftLine + 1]
    ELSE ff

evalDiffOutsideHunk(ff, diff) ==
    IF diff.Op = EqlOp
    THEN [ff EXCEPT !.leftLine = ff.leftLine + 1,
                    !.rightLine = ff.rightLine + 1]
    ELSE IF diff.Op = AddOp
    THEN [ff EXCEPT !.hunk = TRUE,
                    !.hunkStartLeft = maxOf(ff.leftLine - ff.Context, 0),
                    !.hunkStartRight = maxOf(ff.rightLine - ff.Context, 0),
                    !.rightLine = ff.rightLine + 1]
    ELSE IF diff.Op = DelOp
    THEN [ff EXCEPT !.hunk = TRUE,
                    !.hunkStartLeft = maxOf(ff.leftLine - ff.Context, 0),
                    !.hunkStartRight = maxOf(ff.rightLine - ff.Context, 0),
                    !.leftLine = ff.leftLine + 1]
    ELSE ff

\* The print loop of formatHunk from entry i (0-based) on: every entry is
\* printed and counted down until both remaining counts are zero or the
\* script ends.
RECURSIVE hunkLines(_, _, _, _)
hunkLines(diffs, i, remainingLeft, remainingRight) ==
    IF i >= Len(diffs) THEN <<>>
    ELSE LET diff == at(diffs, i)
             remL == IF diff.Op \in {EqlOp, DelOp}
                     THEN remainingLeft - 1 ELSE remainingLeft
             remR == IF diff.Op \in {EqlOp, AddOp}
                     THEN remainingRight - 1 ELSE remainingRight
         IN  <<formatDiff(diff)>> \o
             (IF remL = 0 /\ remR = 0 THEN <<>>
              ELSE hunkLines(diffs, i + 1, remL, remR))

\* The lines the closing hunk gives up: context + 1 when the hunk was closed
\* by an Equal entry, none when it runs to the end of the script.
hunkTrim(ff) == IF ~ff.hunk THEN ff.Context + 1 ELSE 0

\* formatHunk: the range line and the op-lines it writes.  ok is FALSE when
\* diffs[f.hunkIndex:] is outside the slice (Go's run-time panic).
formatHunk(ff, diffs) ==
    LET hunkExtentLeft == ff.leftLine - ff.hunkStartLeft - hunkTrim(ff)
        hunkExtentRight == ff.rightLine - ff.hunkStartRight - hunkTrim(ff)
    IN  IF ff.hunkIndex > Len(diffs)
        THEN [lines |-> <<>>, ok |-> FALSE]
        ELSE [lines |->
                <<formatRange(ff.hunkStartLeft, hunkExtentLeft,
                              ff.hunkStartRight, hunkExtentRight)>> \o
                hunkLines(diffs, ff.hunkIndex, hunkExtentLeft, hunkExtentRight),
              ok |-> TRUE]

\* The index a hunk opened at entry i is printed from.
resumeIndex(i, context) == maxOf(i - context, 0)

\* Format, the resets before its loop.
formatReset(ff) ==
    [ff EXCEPT !.leftLine = 0, !.rightLine = 0, !.hunk = FALSE, !.eqlRun = 0]

\* Format, one iteration of its loop, on entry i (0-based): the formatter
\* after it and what it wrote.
formatEntry(ff, diffs, i) ==
    IF ff.hunk
    THEN LET f1 == evalDiffInsideHunk(ff, at(diffs, i))
             h == formatHunk(f1, diffs)
         IN  IF ~f1.hunk
             THEN [f |-> f1, lines |-> h.lines, ok |-> h.ok]
             ELSE [f |-> f1, lines |-> <<>>, ok |-> TRUE]
    ELSE LET f1 == evalDiffOutsideHunk(ff, at(diffs, i))
         IN  IF f1.hunk
             THEN [f |-> [f1 EXCEPT !.hunkIndex = resumeIndex(i, ff.Context)],
                   lines |-> <<>>, ok |-> TRUE]
             ELSE [f |-> f1, lines |-> <<>>, ok |-> TRUE]

\* Format, after its loop: the hunk still open is written.
formatRest(ff, diffs) ==
    IF ff.hunk THEN formatHunk(ff, diffs) ELSE [lines |-> <<>>, ok |-> TRUE]

\* Print -> Format, entry of call c: the header and the resets.
FormatEnter(c) ==
    /\ fpc[c] = "idle"
    /\ out' = [out EXCEPT ![c] = formatHeader]
    /\ f' = formatReset(f)
    /\ index' = [index EXCEPT ![c] = 0]
    /\ fpc' = [fpc EXCEPT ![c] = "loop"]
    /\ UNCHANGED <<result, diffVars, testVars>>

\* Format, one iteration of the loop of call c.
FormatLoop(c) ==
    /\ fpc[c] = "loop"
    /\ index[c] < Len(result[c])
    /\ LET step == formatEntry(f, result[c], index[c])
       IN  /\ f' = step.f
           /\ out' = [out EXCEPT ![c] = out[c] \o step.lines]
           /\ IF step.ok
              THEN /\ index' = [index EXCEPT ![c] = index[c] + 1]
                   /\ UNCHANGED fpc
              ELSE /\ fpc' = [fpc EXCEPT ![c] = "index"]
                   /\ UNCHANGED index
    /\ UNCHANGED <<result, diffVars, testVars>>

\* Format, the end of call c.
FormatLeave(c) ==
    /\ fpc[c] = "loop"
    /\ index[c] = Len(result[c])
    /\ LET rest == formatRest(f, result[c])
       IN  /\ out' = [out EXCEPT ![c] = out[c] \o rest.lines]
           /\ fpc' = [fpc EXCEPT ![c] = IF rest.ok THEN "done" ELSE "index"]
    /\ UNCHANGED <<f, index, result, diffVars, testVars>>

\* An edit script with the given ops; entry i carries a line of its own.
Script(ops) == [i \in 1 .. Len(ops) |-> LineDiff(ops[i], <<96 + i, NL>>)]

Contexts == -1 .. MaxContext

\* One Printer built with WithUnifiedFormatter, and one Result to print.
InitFormat ==
    /\ diffIdle
    /\ testIdle
    /\ \E context \in Contexts : f = WithUnifiedFormatter(context)
    /\ \E ops \in SeqsUpTo(Ops, MaxScript) :
          result = [c \in Callers |-> IF c = 1 THEN Script(ops) ELSE <<>>]
    /\ index = [c \in Callers |-> 0]
    /\ fpc = [c \in Callers |-> "idle"]
    /\ out = [c \in Callers |-> <<>>]

NextFormat ==
    \/ FormatEnter(1)
    \/ FormatLoop(1)
    \/ FormatLeave(1)

SpecFormat == InitFormat /\ [][NextFormat]_vars

\* One Printer built with WithUnifiedFormatter, and a Result for each of two
\* goroutines that call Print on it.
InitPar ==
    /\ diffIdle
    /\ testIdle
    /\ \E context \in Contexts : f = WithUnifiedFormatter(context)
    /\ \E ops1, ops2 \in SeqsUpTo(Ops, MaxParScript) :
          result = [c \in Callers |-> IF c = 1 THEN Script(ops1) ELSE Script(ops2)]
    /\ index = [c \in Callers |-> 0]
    /\ fpc = [c \in Callers |-> "idle"]
    /\ out = [c \in Callers |-> <<>>]

NextPar ==
    \E c \in Callers :
        \/ FormatEnter(c)
        \/ FormatLoop(c)
        \/ FormatLeave(c)

SpecPar == InitPar /\ [][NextPar]_vars

\* ------------------------------------------------------ properties

linesOf(diffs, ops) ==
    LET keep == {i \in 1 .. Len(diffs) : diffs[i].Op \in ops}
        nth(j) == CHOOSE i \in keep : Cardinality({h \in keep : h < i}) = j - 1
    IN  [j \in 1 .. Cardinality(keep) |-> diffs[nth(j)].Line]

edits(diffs) == Cardinality({i \in 1 .. Len(diffs) : diffs[i].Op # EqlOp})

\* Length of a longest common subsequence of the first i lines of a and the
\* first j lines of b.
RECURSIVE LCS(_, _, _, _)
LCS(a, b, i, j) ==
    IF i = 0 \/ j = 0 THEN 0
    ELSE IF a[i] = b[j] THEN 1 + LCS(a, b, i - 1, j - 1)
    ELSE LET p == LCS(a, b, i - 1, j)
             q == LCS(a, b, i, j - 1)
         IN  IF p >= q THEN p ELSE q

allOf(op, lines) == [i \in 1 .. Len(lines) |-> LineDiff(op, lines[i])]

\* C1: round trip.  The script a diff call returns replays to its inputs:
\* the Equal and Deleted lines, in order, are left; the Equal and Added
\* lines, in order, are right.
RoundTrip ==
    pc = "done" =>
        /\ linesOf(Diffs, {EqlOp, DelOp}) = Left
        /\ linesOf(Diffs, {EqlOp, AddOp}) = Right

\* C1 witness: a returned script of the general search that holds all three
\* kinds of entry.
RoundTripWitness ==
    /\ pc = "done"
    /\ Len(trace) > 1
    /\ \E i, j, h \in 1 .. Len(Diffs) :
          /\ Diffs[i].Op = EqlOp
          /\ Diffs[j].Op = AddOp
          /\ Diffs[h].Op = DelOp

\* C2: minimality.  The number of Added plus Deleted entries of the returned
\* script is |left| + |right| - 2 * LCS(left, right).
Minimality ==
    pc = "done" =>
        edits(Diffs) =
            Len(Left) + Len(Right) - 2 * LCS(Left, Right, Len(Left), Len(Right))

\* C2 witness: a returned script with edits although the inputs share lines
\* that are not all in a common prefix.
MinimalityWitness ==
    /\ pc = "done"
    /\ edits(Diffs) >= 2
    /\ LCS(Left, Right, Len(Left), Len(Right)) >= 2
    /\ Left[1] # Right[1]

\* C5: emptiness fast paths.  Two empty inputs give the empty script, an
\* empty left gives right all Added, an empty right gives left all Deleted.
FastPaths ==
    pc = "done" =>
        /\ (Left = <<>> /\ Right = <<>>) => Diffs = <<>>
        /\ (Left = <<>> /\ Right # <<>>) => Diffs = allOf(AddOp, Right)
        /\ (Left # <<>> /\ Right = <<>>) => Diffs = allOf(DelOp, Left)

\* C5 witness: a one-sided diff of several lines has returned.
FastPathsWitness ==
    /\ pc = "done"
    /\ Left = <<>>
    /\ Len(Right) >= 2
    /\ Len(Diffs) = Len(Right)

\* C6: identity.  Diffing a sequence against itself gives one Equal entry per
\* line, in order.
Identity ==
    (pc = "done" /\ Left = Right) => Diffs = allOf(EqlOp, Left)

\* C6 witness: a sequence of several lines diffed against itself by the
\* general search.
IdentityWitness ==
    /\ pc = "done"
    /\ Left = Right
    /\ Len(Left) >= 2
    /\ Len(trace) = 1
    /\ Len(Diffs) = Len(Left)

\* C9: totality.  The search never panics, never indexes outside v, Left or
\* Right, stops at a distance of at most |left| + |right|, and the call
\* returns.
Totality ==
    /\ [](pc \notin {"panic", "index"})
    /\ [](pc \in {"diag", "found", "back"} => d <= Len(Left) + Len(Right))
    /\ <>(pc = "done")

\* C9 witness: the general search has returned after the worst case, a
\* distance of |left| + |right|.
TotalityWitness ==
    /\ pc = "done"
    /\ Left # <<>>
    /\ Right # <<>>
    /\ Len(trace) = Len(Left) + Len(Right) + 1

\* C7: entry-point agreement.  For the same contents DiffFiles, Diff and
\* DiffLines (on the content split into lines, a final line without
\* terminator included) return identical Diffs, and the reader path hands
\* every line of the source to the differ.
EntryPointsAgree ==
    /\ \A a, b \in returned : results[a] = results[b]
    /\ (pc = "run" /\ call \in {"DiffFiles", "Diff"}) =>
          /\ Left = stringsLines(leftText)
          /\ Right = stringsLines(rightText)

\* What Format writes for diffs when no other call touches the formatter: the
\* loop of Format from entry i on, then the hunk still open.
RECURSIVE formatFrom(_, _, _)
formatFrom(ff, diffs, i) ==
    IF i >= Len(diffs) THEN formatRest(ff, diffs).lines
    ELSE LET step == formatEntry(ff, diffs, i)
         IN  step.lines \o formatFrom(step.f, diffs, i + 1)

formatAlone(diffs, context) ==
    formatHeader \o formatFrom(formatReset(unifiedFormatter(context)), diffs, 0)

\* The positions of o at which the op-line of entry i of diffs is written.
printedAt(o, diffs, i) ==
    {j \in 1 .. Len(o) : o[j] = formatDiff(diffs[i])}

\* The positions of the range lines of o.
rangesOf(o) == {j \in 1 .. Len(o) : o[j].kind = "range"}

\* The positions of the op-lines written under the range line at j.
hunkBody(o, j) ==
    {h \in j + 1 .. Len(o) : \A g \in j + 1 .. h : o[g].kind = "diff"}

\* The number of entries with an op in ops among the first n of diffs.
consumed(diffs, n, ops) == Cardinality({i \in 1 .. n : diffs[i].Op \in ops})

\* C3: hunk coverage.  When Format has returned, every Added or Deleted entry
\* of the script is written as an op-line exactly once, under a range line.
HunkCoverage ==
    fpc[1] = "done" =>
        \A i \in 1 .. Len(result[1]) :
            result[1][i].Op # EqlOp =>
                /\ Cardinality(printedAt(out[1], result[1], i)) = 1
                /\ \A j \in printedAt(out[1], result[1], i) :
                      \E h \in rangesOf(out[1]) : h < j

\* C4: hunk range consistency.  When Format has returned, each range line
\* agrees with the op-lines under it: the extents are the counts of
\* Equal+Deleted and Equal+Added op-lines, the starts are the left and right
\* lines consumed by the entries before the first one printed.
HunkRangeConsistent ==
    fpc[1] = "done" =>
        \A j \in rangesOf(out[1]) :
            LET o == out[1]
                body == hunkBody(o, j)
            IN  /\ body # {}
                /\ o[j].extentLeft =
                      Cardinality({h \in body : o[h].Op \in {EqlOp, DelOp}})
                /\ o[j].extentRight =
                      Cardinality({h \in body : o[h].Op \in {EqlOp, AddOp}})
                /\ \A i \in 1 .. Len(result[1]) :
                      o[j + 1] = formatDiff(result[1][i]) =>
                          /\ o[j].startLeft - 1 =
                                consumed(result[1], i - 1, {EqlOp, DelOp})
                          /\ o[j].startRight - 1 =
                                consumed(result[1], i - 1, {EqlOp, AddOp})

\* C8: concurrency safety of formatting.  Two Print calls running in
\* parallel on one Printer each write what they write when run alone, and
\* neither panics.
ParallelIsolated ==
    \A c \in Callers :
        /\ fpc[c] # "index"
        /\ fpc[c] = "done" => out[c] = formatAlone(result[c], f.Context)

\* C10: context clamp.  The step that opens a hunk on entry i records
\* startLeft = max(leftLine - c, 0), startRight = max(rightLine - c, 0) and
\* the resume index max(i - c, 0); none is negative, and the entries from
\* the resume index up to i are all Equal, as many as the two starts were
\* moved back.
ContextClamp ==
    [][(fpc[1] = "loop" /\ ~f.hunk /\ f'.hunk) =>
          LET i == index[1]
              c == f.Context
          IN  /\ f'.hunkStartLeft = maxOf(f.leftLine - c, 0)
              /\ f'.hunkStartRight = maxOf(f.rightLine - c, 0)
              /\ f'.hunkIndex = maxOf(i - c, 0)
              /\ f'.hunkStartLeft >= 0
              /\ f'.hunkStartRight >= 0
              /\ f'.hunkIndex >= 0
              /\ \A j \in f'.hunkIndex .. i - 1 : at(result[1], j).Op = EqlOp
              /\ f.leftLine - f'.hunkStartLeft = i - f'.hunkIndex
              /\ f.rightLine - f'.hunkStartRight = i - f'.hunkIndex]_vars

\* The lines a step of call c appends to what the call has written.
written(c) == SubSeq(out[c]', Len(out[c]) + 1, Len(out[c]'))

\* C11: trailing context cap.  A hunk closes before the end of the script
\* only on an Equal entry that is the (2c+1)-th consecutive Equal entry after
\* the hunk's latest Added/Deleted entry; the hunk written then has the
\* measured extents minus c+1 and ends with exactly c Equal op-lines after
\* its last Added/Deleted op-line.  First hunk or later hunk alike.
TrailingContextCap ==
    [][(fpc[1] = "loop" /\ f.hunk /\ ~f'.hunk) =>
          LET i == index[1]
              c == f.Context
              diffs == result[1]
              w == written(1)
              n == Len(w)
          IN  /\ at(diffs, i).Op = EqlOp
              /\ i - 2 * c - 1 >= 0
              /\ \A j \in i - 2 * c .. i : at(diffs, j).Op = EqlOp
              /\ at(diffs, i - 2 * c - 1).Op # EqlOp
              /\ n >= c + 2
              /\ w[1].kind = "range"
              /\ w[1].extentLeft = f'.leftLine - f'.hunkStartLeft - (c + 1)
              /\ w[1].extentRight = f'.rightLine - f'.hunkStartRight - (c + 1)
              /\ \A j \in n - c + 1 .. n : w[j].kind = "diff" /\ w[j].Op = EqlOp
              /\ w[n - c].kind = "diff" /\ w[n - c].Op # EqlOp]_vars

\* The predecessor of diagonal kk at distance dd is diagonal kk+1 when the
\* point on diagonal kk-1 is not farther than the one on diagonal kk+1.
notFarther(vv, max, dd, kk) ==
    kk = -dd \/ (kk # dd /\ vv[max + kk - 1] <= vv[max + kk + 1])

\* The predecessor of diagonal kk at distance dd is diagonal kk+1 when the
\* point on diagonal kk-1 is strictly less far than the one on diagonal kk+1.
lessFar(vv, max, dd, kk) ==
    kk = -dd \/ (kk # dd /\ vv[max + kk - 1] < vv[max + kk + 1])

\* A step of the search on diagonal k takes its start from diagonal k+1 when
\* isDown, else from diagonal k-1 advanced by one, and follows the snake.
searchTakes(isDown) ==
    LET max == Len(Left) + Len(Right)
        x0 == IF isDown THEN v[max + k + 1] ELSE v[max + k - 1] + 1
        x1 == x0 + snake(Left, Right, x0, x0 - k)
    IN  /\ x' = x1
        /\ y' = x1 - k
        /\ v'[max + k] = x1

\* A step of the backtrack at level d > 0 goes to the point recorded for the
\* predecessor diagonal and appends an Added entry when isDown, else a
\* Deleted one.
backtrackTakes(isDown) ==
    LET max == Len(Left) + Len(Right)
        kk == x - y
        prevK == IF isDown THEN kk + 1 ELSE kk - 1
        prevX == at(trace, d)[max + prevK]
    IN  /\ x' = prevX
        /\ y' = prevX - prevK
        /\ Len(Diffs') > Len(Diffs)
        /\ Diffs'[Len(Diffs')].Op = IF isDown THEN AddOp ELSE DelOp

\* C12 as stated: in the search and in the backtrack the predecessor of
\* diagonal k at distance d is diagonal k+1 if k = -d, or if k # d and the
\* point recorded on diagonal k-1 is not farther than the one on diagonal
\* k+1; otherwise diagonal k-1, with x advanced by one.
PredecessorNotFarther ==
    [][/\ (pc = "diag" /\ pc' # "index") =>
             searchTakes(notFarther(v, Len(Left) + Len(Right), d, k))
       /\ (pc = "back" /\ pc' # "index" /\ d > 0) =>
             backtrackTakes(notFarther(at(trace, d), Len(Left) + Len(Right),
                                       d, x - y))]_vars

\* C12, amended: the predecessor is diagonal k+1 if k = -d, or if k # d and
\* the point recorded on diagonal k-1 is strictly less far than the one on
\* diagonal k+1; otherwise, a tie included, it is diagonal k-1 with x
\* advanced by one.  The search and the backtrack decide alike.
PredecessorStrictlyLess ==
    [][/\ (pc = "diag" /\ pc' # "index") =>
             searchTakes(lessFar(v, Len(Left) + Len(Right), d, k))
       /\ (pc = "back" /\ pc' # "index" /\ d > 0) =>
             backtrackTakes(lessFar(at(trace, d), Len(Left) + Len(Right),
                                    d, x - y))]_vars

\* The neighbours of diagonal kk recorded before level dd are equally far.
tieAt(dd, kk) ==
    LET max == Len(Left) + Len(Right)
    IN  /\ kk # -dd
        /\ kk # dd
        /\ at(trace, dd)[max + kk - 1] = at(trace, dd)[max + kk + 1]

\* C12 witness: the backtrack has just left a diagonal whose two neighbours
\* were equally far, by a deletion, on a run in which the search had gone
\* through that level.
PredecessorWitness ==
    /\ pc = "back"
    /\ d + 1 < Len(trace)
    /\ tieAt(d + 1, k)
    /\ Diffs # <<>>
    /\ Diffs[Len(Diffs)].Op = DelOp
    /\ x - y = k - 1

\* C13: exact termination point.  When the search stops and hands over to
\* the backtrack, the point reached is exactly (|left|, |right|), the number
\* of trace levels minus one is the minimal edit distance, and (|left|,
\* |right|) is the point recorded for its diagonal.
ExactTermination ==
    pc = "found" =>
        LET l == Len(Left)
            r == Len(Right)
        IN  /\ x = l
            /\ y = r
            /\ Len(trace) - 1 = l + r - 2 * LCS(Left, Right, l, r)
            /\ Len(trace) - 1 = d
            /\ v[l + r + (l - r)] = l

\* C13 witness: the search stops after two levels or more while another
\* diagonal holds a point beyond the end of left.
ExactTerminationWitness ==
    /\ pc = "found"
    /\ Len(trace) - 1 >= 2
    /\ Left # <<>>
    /\ Right # <<>>
    /\ \E i \in DOMAIN v : v[i] > Len(Left)

====
